---- MODULE Spec2Model ----
(***************************************************************************)
(* A model of gabfec/rust-http-server: the thread-per-connection HTTP/1.1  *)
(* server of src/src/main.rs, src/src/server.rs, src/src/http/request.rs,  *)
(* src/src/http/response.rs, src/src/handlers.rs and src/src/utils.rs.     *)
(*                                                                         *)
(* Bytes are their ASCII codes (0..255), strings and byte vectors are      *)
(* sequences of bytes, a HashMap<String, String> is a function from key    *)
(* sequences to value sequences.  Every connection has a client that puts  *)
(* a byte stream on the wire; the server thread of the connection reads    *)
(* it through a BufReader in pieces of any size the transport delivers.    *)
(***************************************************************************)
EXTENDS Integers, Sequences, FiniteSets, TLC

VARIABLES
    cli,      \* cli[c]: what the client of connection c does (fixed per run)
    pc,       \* pc[c]: where the thread of connection c is
    rx,       \* rx[c]: bytes the client sent that no underlying read has delivered
    buf,      \* buf[c]: the BufReader's buffered, unconsumed bytes
    line,     \* line[c]: the String the current read_line call appends to
    req,      \* req[c]: the request being parsed or served
    res,      \* res[c]: the HttpResponse the router built, before send
    reqs,     \* reqs[c]: the requests from_stream returned, in order
    resps,    \* resps[c]: the responses send wrote in full, in order
    wrote,    \* wrote[c]: the bytes the latest send call put on the wire
    files,    \* the file store under the configured directory
    exit,     \* exit[c]: why the thread of connection c left its loop
    took,     \* history: took[c], where each round of the current read_exact got its bytes
    quiet     \* history: quiet[name], the last write of the file and whether it ran undisturbed

vars == <<cli, pc, rx, buf, line, req, res, reqs, resps, wrote, files, exit, took, quiet>>

Conns == {1, 2}

-----------------------------------------------------------------------------
(* String literals of the source, as ASCII codes.                          *)

S_POST == <<80, 79, 83, 84>>                       \* "POST"
S_GET == <<71, 69, 84>>                            \* "GET"
S_PUT == <<80, 85, 84>>                            \* "PUT"
S_HTTP11 == <<72, 84, 84, 80, 47, 49, 46, 49>>     \* "HTTP/1.1"
S_CRLF == <<13, 10>>                               \* "\r\n"
S_LFonly == <<10>>                                 \* "\n"
S_ColonSp == <<58, 32>>                            \* ": "
S_Root == <<47>>                                   \* "/"
S_EchoPrefix == <<47, 101, 99, 104, 111, 47>>      \* "/echo/"
S_UserAgentPath == <<47, 117, 115, 101, 114, 45, 97, 103, 101, 110, 116>>   \* "/user-agent"
S_FilesPrefix == <<47, 102, 105, 108, 101, 115, 47>>                        \* "/files/"
K_content_length == <<99, 111, 110, 116, 101, 110, 116, 45, 108, 101, 110, 103, 116, 104>>   \* "content-length"
K_accept_encoding == <<97, 99, 99, 101, 112, 116, 45, 101, 110, 99, 111, 100, 105, 110, 103>>   \* "accept-encoding"
K_connection == <<99, 111, 110, 110, 101, 99, 116, 105, 111, 110>>          \* "connection"
K_user_agent == <<117, 115, 101, 114, 45, 97, 103, 101, 110, 116>>          \* "user-agent"
S_close == <<99, 108, 111, 115, 101>>              \* "close"
S_gzip == <<103, 122, 105, 112>>                   \* "gzip"
H_ContentType == <<67, 111, 110, 116, 101, 110, 116, 45, 84, 121, 112, 101>>   \* "Content-Type"
H_ContentLength == <<67, 111, 110, 116, 101, 110, 116, 45, 76, 101, 110, 103, 116, 104>>   \* "Content-Length"
H_ContentEncoding == <<67, 111, 110, 116, 101, 110, 116, 45, 69, 110, 99, 111, 100, 105, 110, 103>>   \* "Content-Encoding"
H_Connection == <<67, 111, 110, 110, 101, 99, 116, 105, 111, 110>>          \* "Connection"
S_textplain == <<116, 101, 120, 116, 47, 112, 108, 97, 105, 110>>           \* "text/plain"
S_octet == <<97, 112, 112, 108, 105, 99, 97, 116, 105, 111, 110, 47, 111, 99, 116, 101, 116, 45, 115, 116, 114, 101, 97, 109>>   \* "application/octet-stream"
S_200 == <<50, 48, 48, 32, 79, 75>>                \* "200 OK"
S_201 == <<50, 48, 49, 32, 67, 114, 101, 97, 116, 101, 100>>                \* "201 Created"
S_404 == <<52, 48, 52, 32, 78, 111, 116, 32, 70, 111, 117, 110, 100>>       \* "404 Not Found"
S_500 == <<53, 48, 48, 32, 73, 110, 116, 101, 114, 110, 97, 108, 32, 83, 101, 114, 118, 101, 114, 32, 69, 114, 114, 111, 114>>   \* "500 Internal Server Error"
S_HTTP11sp == <<72, 84, 84, 80, 47, 49, 46, 49, 32>>                        \* "HTTP/1.1 "

-----------------------------------------------------------------------------
(* str and byte-slice operations of the standard library, on ASCII.        *)

MinOf(S) == CHOOSE x \in S : \A y \in S : x <= y
MaxOf(S) == CHOOSE x \in S : \A y \in S : y <= x

Drop(s, n) == SubSeq(s, n + 1, Len(s))
Take(s, n) == SubSeq(s, 1, n)

\* char::is_whitespace on ASCII: tab, LF, VT, FF, CR, space
IsWhitespace(b) == b \in {9, 10, 11, 12, 13, 32}

\* str::to_lowercase on ASCII
to_lowercase(s) == [i \in 1..Len(s) |-> IF s[i] \in 65..90 THEN s[i] + 32 ELSE s[i]]

\* str::trim
trim(s) ==
    LET keep == {i \in 1..Len(s) : ~IsWhitespace(s[i])}
    IN  IF keep = {} THEN <<>> ELSE SubSeq(s, MinOf(keep), MaxOf(keep))

\* str::starts_with
starts_with(s, p) == Len(s) >= Len(p) /\ SubSeq(s, 1, Len(p)) = p

\* the index of the first occurrence of pattern p in s, 0 when there is none
Find(s, p) ==
    LET at == {i \in 1..(Len(s) - Len(p) + 1) : SubSeq(s, i, i + Len(p) - 1) = p}
    IN  IF at = {} THEN 0 ELSE MinOf(at)

\* the members of a set of integers in increasing order
Ascending(S) ==
    [k \in 1..Cardinality(S) |-> CHOOSE i \in S : Cardinality({j \in S : j <= i}) = k]

\* str::split_whitespace, collected: the maximal runs of non-whitespace
split_whitespace(s) ==
    LET starts == {i \in 1..Len(s) :
                     ~IsWhitespace(s[i]) /\ (i = 1 \/ IsWhitespace(s[i - 1]))}
        stop(i) == MinOf({j \in i..Len(s) : j = Len(s) \/ IsWhitespace(s[j + 1])})
        first == Ascending(starts)
    IN  [k \in 1..Len(first) |-> SubSeq(s, first[k], stop(first[k]))]

\* str::split(sep) for a one-byte separator, collected: the pieces between
\* the separators, empty pieces included
split(s, sep) ==
    LET cuts == Ascending({i \in 1..Len(s) : s[i] = sep})
        from(k) == IF k = 1 THEN 1 ELSE cuts[k - 1] + 1
        to(k) == IF k = Len(cuts) + 1 THEN Len(s) ELSE cuts[k] - 1
    IN  [k \in 1..(Len(cuts) + 1) |-> SubSeq(s, from(k), to(k))]

\* str::parse::<usize>: an optional '+', then one or more decimal digits;
\* -1 stands for Err.  (Values here stay far below usize::MAX.)
RECURSIVE DigitsValue(_)
DigitsValue(d) ==
    IF d = <<>> THEN 0 ELSE 10 * DigitsValue(Take(d, Len(d) - 1)) + (d[Len(d)] - 48)

parse_usize(v) ==
    LET d == IF v # <<>> /\ v[1] = 43 THEN Drop(v, 1) ELSE v
    IN  IF d # <<>> /\ \A i \in 1..Len(d) : d[i] \in 48..57 THEN DigitsValue(d) ELSE -1

\* usize::to_string
RECURSIVE to_string(_)
to_string(n) ==
    IF n < 10 THEN <<48 + n>> ELSE to_string(n \div 10) \o <<48 + (n % 10)>>

\* HashMap::insert and HashMap::get(..).unwrap_or(default)
insert(h, k, v) == (k :> v) @@ h
get_or(h, k, default) == IF k \in DOMAIN h THEN h[k] ELSE default

EmptyMap == [k \in {} |-> <<>>]

-----------------------------------------------------------------------------
(* src/src/http/request.rs: the pure parts of the parser.                  *)

None == [some |-> FALSE]

\* a variant of parse_request_line that takes "/" for a missing path
parse_request_line_default_path(ln) ==
    LET parts == split_whitespace(ln)
    IN  IF Len(parts) = 0 THEN None
        ELSE [some |-> TRUE,
              method |-> IF parts[1] = S_POST THEN "Post" ELSE "Get",
              path |-> IF Len(parts) < 2 THEN S_Root ELSE parts[2]]

\* a variant of parse_request_line that takes "post" in any case for POST
parse_request_line_any_case(ln) ==
    LET parts == split_whitespace(ln)
    IN  IF Len(parts) = 0 THEN None
        ELSE IF Len(parts) < 2 THEN None
        ELSE [some |-> TRUE,
              method |-> IF to_lowercase(parts[1]) = to_lowercase(S_POST)
                         THEN "Post" ELSE "Get",
              path |-> parts[2]]

\* HttpRequest::parse_request_line: first token selects the method, the
\* second is the path; None when either is missing
parse_request_line(ln) ==
    LET parts == split_whitespace(ln)
    IN  IF Len(parts) = 0 THEN None
        ELSE IF Len(parts) < 2 THEN None
        ELSE [some |-> TRUE,
              method |-> IF parts[1] = S_POST THEN "Post" ELSE "Get",
              path |-> parts[2]]

\* the line test that ends the header loop of parse_headers
IsBlankLine(ln) == ln = S_CRLF \/ ln = S_LFonly

\* a variant of header_line that keeps the value a key already has
header_line_first_wins(headers, ln) ==
    LET i == Find(ln, S_ColonSp)
    IN  IF i = 0 \/ to_lowercase(Take(ln, i - 1)) \in DOMAIN headers THEN headers
        ELSE insert(headers, to_lowercase(Take(ln, i - 1)), trim(Drop(ln, i + 1)))

\* one iteration of the loop of parse_headers on a line that is not blank:
\* split_once(": "), lowercased key, trimmed value
header_line(headers, ln) ==
    LET i == Find(ln, S_ColonSp)
    IN  IF i = 0 THEN headers
        ELSE insert(headers, to_lowercase(Take(ln, i - 1)), trim(Drop(ln, i + 1)))

\* a variant of body_len that takes a value with a minus sign for its digits
body_len_signed(headers) ==
    IF K_content_length \notin DOMAIN headers THEN 0
    ELSE IF parse_usize(headers[K_content_length]) >= 0
    THEN parse_usize(headers[K_content_length])
    ELSE IF headers[K_content_length] # <<>> /\ headers[K_content_length][1] = 45
            /\ parse_usize(Drop(headers[K_content_length], 1)) >= 0
    THEN parse_usize(Drop(headers[K_content_length], 1))
    ELSE 0

\* the length read_body computes: content-length parsed, else 0
body_len(headers) ==
    IF K_content_length \in DOMAIN headers /\ parse_usize(headers[K_content_length]) >= 0
    THEN parse_usize(headers[K_content_length])
    ELSE 0

-----------------------------------------------------------------------------
(* src/src/utils.rs: compress_body.  flate2's GzEncoder writes one gzip    *)
(* member: a 10-byte header, the deflate stream, CRC-32 and ISIZE.  The    *)
(* deflate stream is modelled as one stored block and the CRC-32 field as  *)
(* a 32-bit byte sum: a reader of the member recovers the data and checks  *)
(* it, and the member's length differs from the data's.                    *)

GzHeader == <<31, 139, 8, 0, 0, 0, 0, 0, 0, 255>>

RECURSIVE ByteSum(_)
ByteSum(d) == IF d = <<>> THEN 0 ELSE d[1] + ByteSum(Drop(d, 1))

LE16(n) == <<n % 256, (n \div 256) % 256>>
LE32(n) == <<n % 256, (n \div 256) % 256, (n \div 65536) % 256, (n \div 16777216) % 256>>

StoredBlock(d) ==
    <<1>> \o LE16(Len(d)) \o LE16(65535 - Len(d)) \o d

compress_body(data) ==
    GzHeader \o StoredBlock(data) \o LE32(ByteSum(data)) \o LE32(Len(data))

\* what a gzip reader makes of a member: [ok, data]
gunzip(z) ==
    IF Len(z) < 23 \/ Take(z, 10) # GzHeader \/ z[11] # 1
    THEN [ok |-> FALSE, data |-> <<>>]
    ELSE LET n == z[12] + 256 * z[13]
             d == SubSeq(z, 16, 15 + n)
         IN  IF /\ Len(z) = 23 + n
                /\ SubSeq(z, 14, 15) = LE16(65535 - n)
                /\ SubSeq(z, 16 + n, 19 + n) = LE32(ByteSum(d))
                /\ SubSeq(z, 20 + n, 23 + n) = LE32(n)
             THEN [ok |-> TRUE, data |-> d]
             ELSE [ok |-> FALSE, data |-> <<>>]

-----------------------------------------------------------------------------
(* src/src/http/response.rs                                                *)

\* HttpResponse::new
HttpResponse_new(status, content_type, body) ==
    [status |-> status,
     headers |-> insert(EmptyMap, H_ContentType, content_type),
     body |-> body]

\* a variant of accepts_gzip that looks for "gzip" anywhere in the value
accepts_gzip_anywhere(rq) ==
    Find(get_or(rq.headers, K_accept_encoding, <<>>), S_gzip) > 0

\* the gzip test of send: accept-encoding split on ',', a trimmed token "gzip"
accepts_gzip(rq) ==
    LET toks == split(get_or(rq.headers, K_accept_encoding, <<>>), 44)
    IN  \E i \in 1..Len(toks) : trim(toks[i]) = S_gzip

\* a variant of asks_close that compares the value as sent, case and all
asks_close_exact(rq) ==
    K_connection \in DOMAIN rq.headers /\ rq.headers[K_connection] = S_close

\* the close test of send and of handle_connection
asks_close(rq) ==
    K_connection \in DOMAIN rq.headers /\ to_lowercase(rq.headers[K_connection]) = S_close

\* a variant of prepare that sets Content-Length before it compresses
prepare_length_first(r, rq) ==
    LET gz == accepts_gzip(rq)
        h1 == insert(r.headers, H_ContentLength, to_string(Len(r.body)))
        h2 == IF gz THEN insert(h1, H_ContentEncoding, S_gzip) ELSE h1
        h3 == IF asks_close(rq) THEN insert(h2, H_Connection, S_close) ELSE h2
    IN  [status |-> r.status, headers |-> h3,
         body |-> IF gz THEN compress_body(r.body) ELSE r.body]

\* send, up to the header string: the response as it is written
prepare(r, rq) ==
    LET gz == accepts_gzip(rq)
        body1 == IF gz THEN compress_body(r.body) ELSE r.body
        h1 == IF gz THEN insert(r.headers, H_ContentEncoding, S_gzip) ELSE r.headers
        h2 == insert(h1, H_ContentLength, to_string(Len(body1)))
        h3 == IF asks_close(rq) THEN insert(h2, H_Connection, S_close) ELSE h2
    IN  [status |-> r.status, headers |-> h3, body |-> body1]

\* the orders in which iterating a HashMap may yield its keys
KeyOrders(h) ==
    LET n == Cardinality(DOMAIN h)
    IN  {o \in [1..n -> DOMAIN h] : \A i, j \in 1..n : i # j => o[i] # o[j]}

RECURSIVE header_lines(_, _)
header_lines(h, order) ==
    IF order = <<>> THEN <<>>
    ELSE order[1] \o S_ColonSp \o h[order[1]] \o S_CRLF \o header_lines(h, Drop(order, 1))

\* response_string of send: status line, header lines, the empty line
response_string(r, order) ==
    S_HTTP11sp \o r.status \o S_CRLF \o header_lines(r.headers, order) \o S_CRLF

-----------------------------------------------------------------------------
(* The file store: the directory the server was started with.  An entry    *)
(* is a regular file with its bytes or a directory; the name "" resolves   *)
(* to the directory itself (Path::join of an empty name).                  *)

RegularFile(data) == [kind |-> "file", data |-> data]
Directory == [kind |-> "dir", data |-> <<>>]

\* a file whose mode allows neither reading nor writing
Locked(data) == [kind |-> "locked", data |-> data]

\* Path::exists
exists(fs, name) == name \in DOMAIN fs

\* a variant of read_or_default in which every read succeeds
read_always(fs, name) == IF name \in DOMAIN fs THEN fs[name].data ELSE <<>>

\* std::fs::read(..).unwrap_or_default()
read_or_default(fs, name) ==
    IF name \in DOMAIN fs /\ fs[name].kind = "file" THEN fs[name].data ELSE <<>>

\* a variant of create_fails in which the open always succeeds
create_never_fails(fs, name) == FALSE

\* whether File::create (the open of std::fs::write) fails: the path is a
\* directory or a file that may not be written, or names a parent that
\* does not exist (the store is flat)
create_fails(fs, name) ==
    \/ name \in DOMAIN fs /\ fs[name].kind \in {"dir", "locked"}
    \/ \E i \in 1..Len(name) : name[i] = 47

\* a variant of create that opens the file without truncating it
create_keeps(fs, name) ==
    IF name \in DOMAIN fs THEN fs ELSE insert(fs, name, RegularFile(<<>>))

\* File::create: create or truncate
create(fs, name) == insert(fs, name, RegularFile(<<>>))

\* a variant of write_all that writes at the end of what is there
write_all_appends(fs, name, data) ==
    insert(fs, name, RegularFile(read_or_default(fs, name) \o data))

\* write_all of the opened file: the bytes go to offset 0 of what is there
write_all(fs, name, data) ==
    LET old == read_or_default(fs, name)
    IN  insert(fs, name, RegularFile(data \o Drop(old, Len(data))))

-----------------------------------------------------------------------------
(* src/src/server.rs and src/src/handlers.rs: routing.                     *)

\* the filename of handle_file_request: &path[7..]
filename(path) == Drop(path, 7)

\* a variant of route that takes "/user-agent" as a prefix too
route_user_agent_prefix(rq, fs) ==
    IF rq.path = S_Root THEN HttpResponse_new(S_200, S_textplain, <<>>)
    ELSE IF starts_with(rq.path, S_EchoPrefix)
        THEN HttpResponse_new(S_200, S_textplain, Drop(rq.path, 6))
    ELSE IF starts_with(rq.path, S_UserAgentPath)
        THEN HttpResponse_new(S_200, S_textplain, get_or(rq.headers, K_user_agent, <<>>))
    ELSE IF starts_with(rq.path, S_FilesPrefix)
        THEN IF exists(fs, filename(rq.path))
             THEN HttpResponse_new(S_200, S_octet, read_or_default(fs, filename(rq.path)))
             ELSE HttpResponse_new(S_404, S_textplain, <<>>)
    ELSE HttpResponse_new(S_404, S_textplain, <<>>)

\* the match of handle_connection for every arm but the POST of /files/
route(rq, fs) ==
    IF rq.path = S_Root THEN HttpResponse_new(S_200, S_textplain, <<>>)
    ELSE IF starts_with(rq.path, S_EchoPrefix)
        THEN HttpResponse_new(S_200, S_textplain, Drop(rq.path, 6))
    ELSE IF rq.path = S_UserAgentPath
        THEN HttpResponse_new(S_200, S_textplain, get_or(rq.headers, K_user_agent, <<>>))
    ELSE IF starts_with(rq.path, S_FilesPrefix)
        THEN IF exists(fs, filename(rq.path))
             THEN HttpResponse_new(S_200, S_octet, read_or_default(fs, filename(rq.path)))
             ELSE HttpResponse_new(S_404, S_textplain, <<>>)
    ELSE HttpResponse_new(S_404, S_textplain, <<>>)

\* a variant of is_file_post that does not look at the method
is_file_post_any_method(rq) == starts_with(rq.path, S_FilesPrefix)

\* whether the request takes the HttpMethod::Post arm of handle_file_request
is_file_post(rq) == starts_with(rq.path, S_FilesPrefix) /\ rq.method = "Post"

-----------------------------------------------------------------------------
(* The clients.  A client sends a sequence of messages, back to back; a    *)
(* message is a request built from its parts or raw bytes.  The last       *)
(* `cut` bytes of the stream are never sent.  Then the client closes its   *)
(* end ("close"), aborts the connection ("reset") or keeps it open and     *)
(* silent ("stall").  With `burst` the transport delivers all it holds to  *)
(* one read; otherwise a read may get any piece of at most MaxRead bytes   *)
(* or all of it.                                                           *)

MaxRead == 3

C_ContentLength == <<67, 111, 110, 116, 101, 110, 116, 45, 76, 101, 110, 103, 116, 104, 58, 32>>   \* "Content-Length: "

Request(method, path, hdrs, cl, body) ==
    [kind |-> "req", method |-> method, path |-> path, hdrs |-> hdrs,
     cl |-> cl, body |-> body, raw |-> <<>>]

Raw(bytes) ==
    [kind |-> "raw", method |-> <<>>, path |-> <<>>, hdrs |-> <<>>,
     cl |-> -1, body |-> <<>>, raw |-> bytes]

RECURSIVE Lines(_)
Lines(hdrs) ==
    IF hdrs = <<>> THEN <<>> ELSE hdrs[1] \o S_CRLF \o Lines(Drop(hdrs, 1))

\* the head of a message: request line, header lines, the empty line
MsgHead(m) ==
    m.method \o <<32>> \o m.path \o <<32>> \o S_HTTP11 \o S_CRLF
    \o Lines(m.hdrs)
    \o (IF m.cl >= 0 THEN C_ContentLength \o to_string(m.cl) \o S_CRLF ELSE <<>>)
    \o S_CRLF

Encode(m) == IF m.kind = "raw" THEN m.raw ELSE MsgHead(m) \o m.body

RECURSIVE Stream(_)
Stream(msgs) ==
    IF msgs = <<>> THEN <<>> ELSE Encode(msgs[1]) \o Stream(Drop(msgs, 1))

Client(msgs, cut, ending, burst) ==
    [msgs |-> msgs, cut |-> cut, ending |-> ending, burst |-> burst]

NoClient == Client(<<>>, 0, "absent", TRUE)

\* the bytes the client puts on the wire
Sent(k) == Take(Stream(k.msgs), Len(Stream(k.msgs)) - k.cut)

-----------------------------------------------------------------------------
(* The state machine.                                                      *)

EmptyReq == [method |-> "Get", path |-> <<>>, headers |-> EmptyMap, body |-> <<>>]
EmptyRes == [status |-> <<>>, headers |-> EmptyMap, body |-> <<>>]

InitWith(scenarios) ==
    \E sc \in scenarios :
        /\ cli = sc.cli
        /\ files = sc.files
        /\ pc = [c \in Conns |-> IF sc.cli[c].ending = "absent" THEN "absent" ELSE "pending"]
        /\ rx = [c \in Conns |-> Sent(sc.cli[c])]
        /\ buf = [c \in Conns |-> <<>>]
        /\ line = [c \in Conns |-> <<>>]
        /\ req = [c \in Conns |-> EmptyReq]
        /\ res = [c \in Conns |-> EmptyRes]
        /\ reqs = [c \in Conns |-> <<>>]
        /\ resps = [c \in Conns |-> <<>>]
        /\ wrote = [c \in Conns |-> <<>>]
        /\ exit = [c \in Conns |-> "running"]
        /\ took = [c \in Conns |-> <<>>]
        /\ quiet = EmptyMap

\* main: listener.incoming() yields the connection, a thread is spawned for
\* it and starts handle_connection with a fresh BufReader
Accept(c) ==
    /\ pc[c] = "pending"
    /\ pc' = [pc EXCEPT ![c] = "line"]
    /\ UNCHANGED <<cli, rx, buf, line, req, res, reqs, resps, wrote, files, exit, took, quiet>>

\* main: listener.incoming() yields Err: logged, the loop goes on
AcceptErr(c) ==
    /\ pc[c] = "pending"
    /\ pc' = [pc EXCEPT ![c] = "lost"]
    /\ exit' = [exit EXCEPT ![c] = "accept_err"]
    /\ UNCHANGED <<cli, rx, buf, line, req, res, reqs, resps, wrote, files, took, quiet>>

\* what one read of the TcpStream can return
ReadSizes(c) ==
    IF cli[c].burst THEN {Len(rx[c])}
    ELSE {k \in 1..Len(rx[c]) : k <= MaxRead \/ k = Len(rx[c])}
AtEof(c) == rx[c] = <<>> /\ cli[c].ending = "close"
AtErr(c) == rx[c] = <<>> /\ cli[c].ending = "reset"

\* BufReader::fill_buf: the buffered bytes, or, the buffer being empty, the
\* k bytes one read of the stream delivers
fill_buf(c, k) == IF buf[c] # <<>> THEN buf[c] ELSE Take(rx[c], k)
FillSizes(c) == IF buf[c] # <<>> THEN {0} ELSE ReadSizes(c)
rx_after(c, k) == IF buf[c] # <<>> THEN rx[c] ELSE Drop(rx[c], k)

\* a variant of rest_after that throws the rest of the chunk away
rest_discarded(avail, used) == <<>>

\* read_until: what of the available bytes goes to the line (through the
\* first '\n', or all of them), and what stays buffered
line_part(avail) ==
    IF Find(avail, <<10>>) > 0 THEN Take(avail, Find(avail, <<10>>)) ELSE avail
rest_after(avail, used) == Drop(avail, Len(used))


\* from_stream returning None: handle_connection breaks, the stream is dropped
Released(c, why) ==
    /\ pc' = [pc EXCEPT ![c] = "released"]
    /\ exit' = [exit EXCEPT ![c] = why]
    /\ line' = [line EXCEPT ![c] = <<>>]
    /\ req' = [req EXCEPT ![c] = EmptyReq]

\* BufRead::read_line, one round of its loop: in from_stream ("line") and in
\* parse_headers ("headers")
ReadLine(c) ==
    /\ pc[c] \in {"line", "headers"}
    /\ \/ /\ buf[c] # <<>> \/ rx[c] # <<>>
          /\ \E k \in FillSizes(c) :
                LET avail == fill_buf(c, k)
                    part == line_part(avail)
                IN  /\ rx' = [rx EXCEPT ![c] = rx_after(c, k)]
                    /\ buf' = [buf EXCEPT ![c] = rest_after(avail, part)]
                    /\ line' = [line EXCEPT ![c] = line[c] \o part]
                    /\ pc' = [pc EXCEPT ![c] =
                                IF part[Len(part)] # 10 THEN pc[c]
                                ELSE IF pc[c] = "line" THEN "reqline" ELSE "hdrline"]
          /\ UNCHANGED <<cli, req, res, reqs, resps, wrote, files, exit, took, quiet>>
       \/ \* the read returns 0: read_line returns what it has
          /\ buf[c] = <<>> /\ AtEof(c)
          /\ pc' = [pc EXCEPT ![c] = IF pc[c] = "line" THEN "reqline" ELSE "hdrline"]
          /\ UNCHANGED <<cli, rx, buf, line, req, res, reqs, resps, wrote, files, exit, took, quiet>>
       \/ \* the read fails: .ok()? makes it None
          /\ buf[c] = <<>> /\ AtErr(c)
          /\ Released(c, "read_err")
          /\ UNCHANGED <<cli, rx, buf, res, reqs, resps, wrote, files, took, quiet>>

\* from_stream after its read_line: the is_empty test and parse_request_line
ParseRequestLine(c) ==
    /\ pc[c] = "reqline"
    /\ \E parsed \in {parse_request_line(line[c])} :
          IF line[c] = <<>>
          THEN Released(c, "eof")
          ELSE IF ~parsed.some
          THEN Released(c, "bad_line")
          ELSE /\ req' = [req EXCEPT ![c] =
                           [method |-> parsed.method, path |-> parsed.path,
                            headers |-> EmptyMap, body |-> <<>>]]
               /\ line' = [line EXCEPT ![c] = <<>>]
               /\ pc' = [pc EXCEPT ![c] = "headers"]
               /\ exit' = exit
    /\ UNCHANGED <<cli, rx, buf, res, reqs, resps, wrote, files, took, quiet>>

\* parse_headers after its read_line: break on the blank line, else record
\* the header and loop
ParseHeaderLine(c) ==
    /\ pc[c] = "hdrline"
    /\ IF IsBlankLine(line[c])
       THEN /\ pc' = [pc EXCEPT ![c] = "body"]
            /\ req' = req
       ELSE /\ pc' = [pc EXCEPT ![c] = "headers"]
            /\ req' = [req EXCEPT ![c].headers = header_line(req[c].headers, line[c])]
    /\ line' = [line EXCEPT ![c] = <<>>]
    /\ UNCHANGED <<cli, rx, buf, res, reqs, resps, wrote, files, exit, took, quiet>>

\* a variant of short_body that returns the request with the bytes it has
short_body_kept(c) ==
    /\ reqs' = [reqs EXCEPT ![c] = Append(reqs[c], req[c])]
    /\ res' = [res EXCEPT ![c] = route(req[c], files)]
    /\ pc' = [pc EXCEPT ![c] = "send"]
    /\ UNCHANGED <<cli, rx, buf, line, req, resps, wrote, files, exit, took, quiet>>

\* read_body when the stream ends before the vector is full: read_exact
\* fails with UnexpectedEof, .ok()? makes it None, from_stream returns None
short_body(c) ==
    /\ Released(c, "body_eof")
    /\ UNCHANGED <<cli, rx, buf, res, reqs, resps, wrote, files, took, quiet>>

\* read_body: read_exact into a vector of body_len bytes, one round
ReadExact(c) ==
    /\ pc[c] = "body"
    /\ Len(req[c].body) < body_len(req[c].headers)
    /\ \/ /\ buf[c] # <<>> \/ rx[c] # <<>>
          /\ \E k \in FillSizes(c) :
                LET avail == fill_buf(c, k)
                    want == body_len(req[c].headers) - Len(req[c].body)
                    part == IF Len(avail) <= want THEN avail ELSE Take(avail, want)
                IN  /\ rx' = [rx EXCEPT ![c] = rx_after(c, k)]
                    /\ buf' = [buf EXCEPT ![c] = rest_after(avail, part)]
                    /\ req' = [req EXCEPT ![c].body = req[c].body \o part]
          /\ took' = [took EXCEPT ![c] = Append(took[c], IF buf[c] # <<>> THEN "buffered" ELSE "read")]
          /\ UNCHANGED <<cli, pc, line, res, reqs, resps, wrote, files, exit, quiet>>
       \/ /\ buf[c] = <<>> /\ AtEof(c)
          /\ short_body(c)
       \/ \* the read fails
          /\ buf[c] = <<>> /\ AtErr(c)
          /\ Released(c, "read_err")
          /\ UNCHANGED <<cli, rx, buf, res, reqs, resps, wrote, files, took, quiet>>

\* history: a write operation of connection c on the file begins
WriteBegins(c, name) == insert(quiet, name, [st |-> "open", by |-> c, data |-> <<>>])

\* history: the write_all of connection c ends; it ran undisturbed when no
\* other connection opened the file since c did
WriteEnds(c, name, data) ==
    insert(quiet, name,
           IF name \in DOMAIN quiet /\ quiet[name].st = "open" /\ quiet[name].by = c
           THEN [st |-> "written", by |-> c, data |-> data]
           ELSE [st |-> "disturbed", by |-> c, data |-> <<>>])

\* history: connection c answers 201 for its undisturbed write
Answered201(c, name) ==
    IF name \in DOMAIN quiet /\ quiet[name].st = "written" /\ quiet[name].by = c
    THEN insert(quiet, name, [quiet[name] EXCEPT !.st = "answered"])
    ELSE quiet

\* from_stream returns Some(request); handle_connection matches the path.
\* The POST arm of handle_file_request opens the file here (File::create).
Dispatch(c) ==
    /\ pc[c] = "body"
    /\ Len(req[c].body) = body_len(req[c].headers)
    /\ reqs' = [reqs EXCEPT ![c] = Append(reqs[c], req[c])]
    /\ IF is_file_post(req[c])
       THEN IF create_fails(files, filename(req[c].path))
            THEN /\ res' = [res EXCEPT ![c] = HttpResponse_new(S_500, S_textplain, <<>>)]
                 /\ pc' = [pc EXCEPT ![c] = "send"]
                 /\ UNCHANGED <<files, quiet>>
            ELSE /\ files' = create(files, filename(req[c].path))
                 /\ quiet' = WriteBegins(c, filename(req[c].path))
                 /\ pc' = [pc EXCEPT ![c] = "fs_write"]
                 /\ res' = res
       ELSE /\ res' = [res EXCEPT ![c] = route(req[c], files)]
            /\ pc' = [pc EXCEPT ![c] = "send"]
            /\ UNCHANGED <<files, quiet>>
    /\ UNCHANGED <<cli, rx, buf, line, req, resps, wrote, exit, took>>

\* std::fs::write after the open: write_all succeeds, 201
FileWrite(c) ==
    /\ pc[c] = "fs_write"
    /\ files' = write_all(files, filename(req[c].path), req[c].body)
    /\ quiet' = WriteEnds(c, filename(req[c].path), req[c].body)
    /\ res' = [res EXCEPT ![c] = HttpResponse_new(S_201, S_textplain, <<>>)]
    /\ pc' = [pc EXCEPT ![c] = "send"]
    /\ UNCHANGED <<cli, rx, buf, line, req, reqs, resps, wrote, exit, took>>

\* std::fs::write after the open: write_all fails (the device is full), 500
FileWriteErr(c) ==
    /\ pc[c] = "fs_write"
    /\ quiet' = insert(quiet, filename(req[c].path), [st |-> "disturbed", by |-> c, data |-> <<>>])
    /\ res' = [res EXCEPT ![c] = HttpResponse_new(S_500, S_textplain, <<>>)]
    /\ pc' = [pc EXCEPT ![c] = "send"]
    /\ UNCHANGED <<cli, rx, buf, line, req, reqs, resps, wrote, files, exit, took>>

\* a variant of after_send that never breaks
after_send_keeps_on(rq) == "line"

\* where handle_connection goes after send: break on Connection: close
after_send(rq) == IF asks_close(rq) THEN "released" ELSE "line"

\* a variant of wire_bytes that leaves the body out
wire_bytes_head_only(r, order) == response_string(r, order)

\* the two write_all calls of send: the header string, then the body
wire_bytes(r, order) == response_string(r, order) \o r.body

\* HttpResponse::send writes header string and body and flushes; then the
\* close test of handle_connection
Send(c) ==
    /\ pc[c] = "send"
    /\ \E r \in {prepare(res[c], req[c])} :
          /\ \E order \in KeyOrders(r.headers) :
                wrote' = [wrote EXCEPT ![c] = wire_bytes(r, order)]
          /\ resps' = [resps EXCEPT ![c] = Append(resps[c], r)]
    /\ pc' = [pc EXCEPT ![c] = after_send(req[c])]
    /\ exit' = [exit EXCEPT ![c] = IF after_send(req[c]) = "released" THEN "close" ELSE exit[c]]
    /\ quiet' = IF is_file_post(req[c]) /\ res[c].status = S_201
                THEN Answered201(c, filename(req[c].path)) ELSE quiet
    /\ req' = [req EXCEPT ![c] = EmptyReq]
    /\ res' = [res EXCEPT ![c] = EmptyRes]
    /\ took' = [took EXCEPT ![c] = <<>>]
    /\ UNCHANGED <<cli, rx, buf, line, reqs, files>>

\* a variant of after_panic in which the panic ends the whole process
after_panic_aborts(c) == [d \in Conns |-> "panicked"]

\* a panic in the thread of connection c unwinds that thread only
after_panic(c) == [pc EXCEPT ![c] = "panicked"]

\* HttpResponse::send when the peer has gone: one of the write_all calls
\* fails and its unwrap panics, before or after the header string went out
SendPanic(c) ==
    /\ pc[c] = "send"
    /\ cli[c].ending = "reset"
    /\ \E r \in {prepare(res[c], req[c])} :
          \E order \in KeyOrders(r.headers), headOut \in BOOLEAN :
             wrote' = [wrote EXCEPT ![c] =
                         IF headOut THEN response_string(r, order) ELSE <<>>]
    /\ pc' = after_panic(c)
    /\ exit' = [exit EXCEPT ![c] = "panic"]
    /\ req' = [req EXCEPT ![c] = EmptyReq]
    /\ res' = [res EXCEPT ![c] = EmptyRes]
    /\ took' = [took EXCEPT ![c] = <<>>]
    /\ UNCHANGED <<cli, rx, buf, line, reqs, resps, files, quiet>>

\* the steps of the thread serving connection c
Thread(c) ==
    \/ ReadLine(c)
    \/ ParseRequestLine(c)
    \/ ParseHeaderLine(c)
    \/ ReadExact(c)
    \/ Dispatch(c)
    \/ FileWrite(c)
    \/ FileWriteErr(c)
    \/ Send(c)
    \/ SendPanic(c)

Next ==
    \/ \E c \in Conns : Accept(c)
    \/ \E c \in Conns : AcceptErr(c)
    \/ \E c \in Conns : Thread(c)

-----------------------------------------------------------------------------
(* The runs that are checked: what the clients send, and what the store    *)
(* holds at the start.                                                     *)

MaxCut == 8

P_EchoAb == <<47, 101, 99, 104, 111, 47, 97, 98>>       \* "/echo/ab"
P_EchoC == <<47, 101, 99, 104, 111, 47, 99>>            \* "/echo/c"
P_FilesA == <<47, 102, 105, 108, 101, 115, 47, 97>>     \* "/files/a"
P_Nope == <<47, 110, 111, 112, 101>>                    \* "/nope"
B_xyz == <<120, 121, 122>>                              \* "xyz"
B_pq == <<112, 113>>                                    \* "pq"
B_old == <<111, 108, 100, 33>>                          \* "old!"
N_a == <<97>>                                           \* "a"
L_AcceptGzip == <<65, 99, 99, 101, 112, 116, 45, 69, 110, 99, 111, 100, 105, 110, 103, 58, 32, 100, 101, 102, 108, 97, 116, 101, 44, 32, 103, 122, 105, 112>>   \* "Accept-Encoding: deflate, gzip"
L_AcceptIdentity == <<65, 99, 99, 101, 112, 116, 45, 69, 110, 99, 111, 100, 105, 110, 103, 58, 32, 105, 100, 101, 110, 116, 105, 116, 121>>   \* "Accept-Encoding: identity"
L_ConnClose == <<67, 111, 110, 110, 101, 99, 116, 105, 111, 110, 58, 32, 99, 108, 111, 115, 101>>   \* "Connection: close"
L_ConnCloseCap == <<67, 111, 110, 110, 101, 99, 116, 105, 111, 110, 58, 32, 67, 108, 111, 115, 101>>   \* "Connection: Close"
L_ConnKeep == <<67, 111, 110, 110, 101, 99, 116, 105, 111, 110, 58, 32, 107, 101, 101, 112, 45, 97, 108, 105, 118, 101>>   \* "Connection: keep-alive"
L_UserAgent == <<85, 115, 101, 114, 45, 65, 103, 101, 110, 116, 58, 32, 116, 47, 49>>   \* "User-Agent: t/1"

M_Root == Request(S_GET, S_Root, <<>>, -1, <<>>)
M_RootKeep == Request(S_GET, S_Root, <<L_ConnKeep>>, -1, <<>>)
M_EchoGzip == Request(S_GET, P_EchoAb, <<L_AcceptGzip>>, -1, <<>>)
M_EchoIdentity == Request(S_GET, P_EchoAb, <<L_AcceptIdentity>>, -1, <<>>)
M_EchoClose == Request(S_GET, P_EchoC, <<L_ConnCloseCap>>, -1, <<>>)
M_GzipClose == Request(S_GET, P_EchoC, <<L_AcceptGzip, L_ConnClose>>, -1, <<>>)
M_UserAgent == Request(S_GET, S_UserAgentPath, <<L_UserAgent>>, -1, <<>>)
M_PostA == Request(S_POST, P_FilesA, <<>>, 3, B_xyz)
M_PostA2 == Request(S_POST, P_FilesA, <<>>, 2, B_pq)
M_GetA == Request(S_GET, P_FilesA, <<>>, -1, <<>>)
M_GetAGzip == Request(S_GET, P_FilesA, <<L_AcceptGzip>>, -1, <<>>)
M_PostDir == Request(S_POST, S_FilesPrefix, <<>>, 2, B_pq)
M_GetDir == Request(S_GET, S_FilesPrefix, <<>>, -1, <<>>)
M_PutNope == Request(S_PUT, P_Nope, <<>>, -1, <<>>)
M_OneToken == Raw(S_GET \o S_CRLF)
M_BlankLine == Raw(S_CRLF)

EmptyDir == insert(EmptyMap, <<>>, Directory)
DirWithA == insert(EmptyDir, N_a, RegularFile(B_old))

\* one connection, served byte by byte
Scripts1 ==
    { <<>>,
      <<M_PostA, M_GetAGzip>>,
      <<M_EchoGzip, M_UserAgent, M_EchoClose, M_Root>>,
      <<M_RootKeep, M_PostDir, M_GzipClose>>,
      <<M_GetDir, M_PutNope, M_EchoIdentity>>,
      <<M_Root, M_OneToken>>,
      <<M_BlankLine>>,
      <<M_GetA, M_PostA2>> }

Scenarios1 ==
    { [cli |-> (1 :> Client(msgs, cut, ending, FALSE)) @@ (2 :> NoClient),
       files |-> EmptyDir] :
        msgs \in Scripts1, cut \in 0..MaxCut, ending \in {"close", "reset", "stall"} }

Init == InitWith({sc \in Scenarios1 : sc.cli[1].cut <= Len(Stream(sc.cli[1].msgs))})

Spec == Init /\ [][Next]_vars

\* two connections at once, each read delivering all the client has sent:
\* a client that behaves, beside one that shares the file or misbehaves
Behaved ==
    { Client(<<M_PostA, M_GetA>>, 0, "close", TRUE),
      Client(<<M_EchoGzip, M_EchoClose, M_Root>>, 0, "close", TRUE) }

Others ==
    { Client(<<M_GetA, M_PostA2, M_GetA>>, 0, "close", TRUE),
      Client(<<M_PostA2>>, 1, "close", TRUE),
      Client(<<M_UserAgent>>, 2, "close", TRUE),
      Client(<<M_UserAgent>>, 2, "stall", TRUE),
      Client(<<M_Root, M_PostA2>>, 0, "reset", TRUE),
      Client(<<M_OneToken>>, 0, "close", TRUE) }

Scenarios2 ==
    { [cli |-> (1 :> a) @@ (2 :> b), files |-> fs] :
        a \in Behaved, b \in Others, fs \in {EmptyDir} }

Init2 == InitWith(Scenarios2)

Spec2 == Init2 /\ [][Next]_vars

\* one connection, each read delivering all the client has sent: the
\* request lines, header lines and paths the parser and the router tell
\* apart, on a store that holds a file, a file that cannot be opened, and a
\* directory
S_post == <<112, 111, 115, 116>>   \* "post"
P_Echo == <<47, 101, 99, 104, 111>>   \* "/echo"
P_UserAgentX == <<47, 117, 115, 101, 114, 45, 97, 103, 101, 110, 116, 47, 120>>   \* "/user-agent/x"
P_FilesB == <<47, 102, 105, 108, 101, 115, 47, 98>>   \* "/files/b"
P_FilesK == <<47, 102, 105, 108, 101, 115, 47, 107>>   \* "/files/k"
P_FilesD == <<47, 102, 105, 108, 101, 115, 47, 100>>   \* "/files/d"
P_Files == <<47, 102, 105, 108, 101, 115>>   \* "/files"
B_key == <<107, 101, 121>>   \* "key"
N_b == <<98>>   \* "b"
N_k == <<107>>   \* "k"
N_d == <<100>>   \* "d"
L_AE_Gzip == <<65, 99, 99, 101, 112, 116, 45, 69, 110, 99, 111, 100, 105, 110, 103, 58, 32, 103, 122, 105, 112>>   \* "Accept-Encoding: gzip"
L_AE_GzipDeflate == <<65, 99, 99, 101, 112, 116, 45, 69, 110, 99, 111, 100, 105, 110, 103, 58, 32, 103, 122, 105, 112, 44, 32, 100, 101, 102, 108, 97, 116, 101>>   \* "Accept-Encoding: gzip, deflate"
L_AE_Upper == <<65, 99, 99, 101, 112, 116, 45, 69, 110, 99, 111, 100, 105, 110, 103, 58, 32, 71, 90, 73, 80>>   \* "Accept-Encoding: GZIP"
L_AE_Gzipx == <<65, 99, 99, 101, 112, 116, 45, 69, 110, 99, 111, 100, 105, 110, 103, 58, 32, 100, 101, 102, 108, 97, 116, 101, 44, 32, 103, 122, 105, 112, 120>>   \* "Accept-Encoding: deflate, gzipx"
L_AE_Quality == <<65, 99, 99, 101, 112, 116, 45, 69, 110, 99, 111, 100, 105, 110, 103, 58, 32, 103, 122, 105, 112, 59, 113, 61, 49, 46, 48>>   \* "Accept-Encoding: gzip;q=1.0"
L_AE_Spaced == <<97, 99, 99, 101, 112, 116, 45, 101, 110, 99, 111, 100, 105, 110, 103, 58, 32, 32, 98, 114, 32, 44, 32, 32, 103, 122, 105, 112, 32, 32>>   \* "accept-encoding:  br ,  gzip  "
L_AE_Empty == <<65, 99, 99, 101, 112, 116, 45, 69, 110, 99, 111, 100, 105, 110, 103, 58, 32>>   \* "Accept-Encoding: "
L_UA_Foo == <<85, 115, 101, 114, 45, 65, 103, 101, 110, 116, 58, 32, 102, 111, 111>>   \* "User-Agent: foo"
L_UA_Second == <<117, 115, 101, 114, 45, 97, 103, 101, 110, 116, 58, 32, 32, 117, 47, 50, 32>>   \* "user-agent:  u/2 "
L_XKeyOne == <<88, 45, 75, 101, 121, 58, 32, 111, 110, 101>>   \* "X-Key: one"
L_XKeyTwo == <<120, 45, 107, 101, 121, 58, 32, 116, 119, 111>>   \* "x-key: two"
L_XKeyThree == <<88, 45, 75, 69, 89, 58, 32, 32, 116, 104, 114, 101, 101, 32, 32>>   \* "X-KEY:  three  "
L_NoSeparator == <<78, 111, 83, 101, 112, 97, 114, 97, 116, 111, 114>>   \* "NoSeparator"
L_NoSpace == <<85, 115, 101, 114, 45, 65, 103, 101, 110, 116, 58, 98, 97, 114>>   \* "User-Agent:bar"
L_TwoSeparators == <<65, 58, 32, 98, 58, 32, 99>>   \* "A: b: c"
L_CL_Letters == <<67, 111, 110, 116, 101, 110, 116, 45, 76, 101, 110, 103, 116, 104, 58, 32, 97, 98, 99>>   \* "Content-Length: abc"
L_CL_Negative == <<67, 111, 110, 116, 101, 110, 116, 45, 76, 101, 110, 103, 116, 104, 58, 32, 45, 49>>   \* "Content-Length: -1"
L_CL_Plus == <<67, 111, 110, 116, 101, 110, 116, 45, 76, 101, 110, 103, 116, 104, 58, 32, 43, 50>>   \* "Content-Length: +2"
L_CL_Three == <<67, 111, 110, 116, 101, 110, 116, 45, 76, 101, 110, 103, 116, 104, 58, 32, 51>>   \* "Content-Length: 3"
L_CL_Empty == <<99, 111, 110, 116, 101, 110, 116, 45, 108, 101, 110, 103, 116, 104, 58, 32>>   \* "content-length: "

Verbs3 == {S_GET, S_POST, S_post, S_PUT}

Paths3 ==
    {S_Root, P_EchoAb, S_EchoPrefix, P_Echo, S_UserAgentPath, P_UserAgentX,
     P_FilesA, P_FilesB, P_FilesK, P_FilesD, S_FilesPrefix, P_Files, P_Nope}

AcceptLines3 ==
    {L_AE_Gzip, L_AcceptGzip, L_AE_GzipDeflate, L_AE_Upper, L_AE_Gzipx,
     L_AE_Quality, L_AE_Spaced, L_AE_Empty, L_AcceptIdentity}

HeaderSeqs3 ==
    { <<L_UA_Foo>>,
      <<L_XKeyOne, L_XKeyTwo, L_XKeyThree>>,
      <<L_NoSeparator, L_NoSpace, L_TwoSeparators>>,
      <<L_UserAgent, L_NoSpace, L_UA_Second, L_XKeyOne>> }

Store3 ==
    insert(insert(insert(EmptyDir, N_a, RegularFile(B_old)), N_k, Locked(B_key)),
           N_d, Directory)

Scripts3 ==
    { <<Request(m, p, <<L_UserAgent>>, -1, <<>>)>> : m \in Verbs3, p \in Paths3 }
    \cup { <<Request(S_GET, p, <<ae>>, -1, <<>>)>> : ae \in AcceptLines3, p \in {P_EchoAb, P_FilesA} }
    \cup { <<Request(S_GET, S_UserAgentPath, hs, -1, <<>>)>> : hs \in HeaderSeqs3 }
    \cup { <<Request(S_POST, P_FilesB, <<L_CL_Letters>>, -1, <<>>), M_UserAgent>>,
           <<Request(S_POST, P_FilesB, <<L_CL_Negative>>, -1, B_xyz), M_Root>>,
           <<Request(S_GET, P_EchoAb, <<L_CL_Three, L_CL_Empty>>, -1, <<>>), M_Root>>,
           <<Request(S_POST, P_FilesB, <<L_CL_Plus>>, -1, B_pq), M_Root>> }
    \cup { <<M_PostA, M_GetA>>,
           <<Request(S_POST, P_FilesB, <<>>, 2, B_pq), Request(S_GET, P_FilesB, <<>>, -1, <<>>)>>,
           <<Request(S_POST, P_FilesD, <<>>, 2, B_pq), M_GetA>>,
           <<Request(S_POST, P_FilesK, <<>>, 2, B_pq), M_Root>>,
           <<Request(S_POST, P_FilesA, <<L_ConnClose>>, 3, B_xyz), M_GetA>> }

Scenarios3 ==
    { [cli |-> (1 :> Client(msgs, 0, ending, TRUE)) @@ (2 :> NoClient),
       files |-> Store3] :
        msgs \in Scripts3, ending \in {"close", "reset"} }

Init3 == InitWith(Scenarios3)

Spec3 == Init3 /\ [][Next]_vars

-----------------------------------------------------------------------------
(* What the clients sent and what they see, for the properties below.      *)

\* a message whose Content-Length, if any, is the length of its body
Framed(m) ==
    m.kind = "req" /\ (IF m.cl = -1 THEN m.body = <<>> ELSE m.cl = Len(m.body))

\* message i of client k is a request and every message before it is framed,
\* so that request i of the connection is message i
Aligned(k, i) ==
    /\ i <= Len(k.msgs)
    /\ k.msgs[i].kind = "req"
    /\ \A j \in 1..(i - 1) : Framed(k.msgs[j])

\* the n bytes of client k's stream that follow the blank line of message i
BytesAfterBlankLine(k, i, n) ==
    LET headEnd == Len(Stream(SubSeq(k.msgs, 1, i - 1))) + Len(MsgHead(k.msgs[i]))
    IN  SubSeq(Stream(k.msgs), headEnd + 1, headEnd + n)

\* the message has a header line "connection: close", in any case
ClientAsksClose(m) ==
    \E i \in 1..Len(m.hdrs) : to_lowercase(m.hdrs[i]) = to_lowercase(L_ConnClose)

\* a response as its reader splits it: the head ends at the first empty line
WireHeadEnd(w) == Find(w, S_CRLF \o S_CRLF)
WireBody(w) == IF WireHeadEnd(w) = 0 THEN <<>> ELSE Drop(w, WireHeadEnd(w) + 3)
WireHeaderValues(w, name) ==
    LET head == IF WireHeadEnd(w) = 0 THEN <<>> ELSE Take(w, WireHeadEnd(w) + 1)
        pat == S_CRLF \o name \o S_ColonSp
        at == {i \in 1..(Len(head) - Len(pat) + 1) : SubSeq(head, i, i + Len(pat) - 1) = pat}
    IN  {SubSeq(head, i + Len(pat),
                MinOf({j \in (i + Len(pat))..Len(head) : head[j] = 13}) - 1) : i \in at}

\* the connection's thread is inside from_stream
Parsing(c) == pc[c] \in {"line", "reqline", "headers", "hdrline", "body"}

\* the payload of a written response: its body, decoded when gzip-encoded
Payload(r) ==
    IF H_ContentEncoding \in DOMAIN r.headers THEN gunzip(r.body).data ELSE r.body

\* the number of maximal runs of non-whitespace in a line
TokenCount(ln) ==
    Cardinality({i \in 1..Len(ln) :
                    ~IsWhitespace(ln[i]) /\ (i = 1 \/ IsWhitespace(ln[i - 1]))})

-----------------------------------------------------------------------------
\* C1: a request sent with Content-Length: N is parsed with a body that is
\* exactly the N bytes following its blank line in the client's stream,
\* however the reads split the stream.
C1_BodyIsBytesAfterBlankLine ==
    \A c \in Conns : \A i \in 1..Len(reqs[c]) :
        (Aligned(cli[c], i) /\ cli[c].msgs[i].cl >= 0)
            => reqs[c][i].body = BytesAfterBlankLine(cli[c], i, cli[c].msgs[i].cl)

\* a POST with a 3-byte body was parsed on a connection whose read of the end
\* of the headers also brought the first body byte, the rest coming in two
\* further reads
C1_Witness ==
    \E c \in Conns :
        /\ Len(reqs[c]) = 1
        /\ cli[c].msgs[1] = M_PostA
        /\ reqs[c][1].body = B_xyz
        /\ took[c] = <<"buffered", "read", "read">>

\* C2: the Content-Length value of every written response is the number of
\* body bytes that follow its blank line, with and without gzip.
C2_ContentLengthIsBodyLength ==
    \A c \in Conns :
        /\ \A i \in 1..Len(resps[c]) :
              /\ H_ContentLength \in DOMAIN resps[c][i].headers
              /\ parse_usize(resps[c][i].headers[H_ContentLength]) = Len(resps[c][i].body)
        /\ (wrote[c] # <<>> /\ exit[c] # "panic") =>
              /\ Cardinality(WireHeaderValues(wrote[c], H_ContentLength)) = 1
              /\ \A v \in WireHeaderValues(wrote[c], H_ContentLength) :
                    parse_usize(v) = Len(WireBody(wrote[c]))

\* a gzip-encoded response carrying the file's bytes is on the wire
C2_Witness ==
    \E c \in Conns :
        /\ exit[c] # "panic"
        /\ WireHeaderValues(wrote[c], H_ContentEncoding) = {S_gzip}
        /\ gunzip(WireBody(wrote[c])).ok
        /\ gunzip(WireBody(wrote[c])).data = B_xyz

\* C3: a written response has the header Connection: close exactly when the
\* request it answers has a connection header equal to "close" in any case.
C3_ConnectionCloseEchoed ==
    \A c \in Conns :
        /\ \A i \in 1..Len(resps[c]) :
              Aligned(cli[c], i) =>
                 /\ (H_Connection \in DOMAIN resps[c][i].headers)
                        <=> ClientAsksClose(cli[c].msgs[i])
                 /\ (H_Connection \in DOMAIN resps[c][i].headers)
                        => resps[c][i].headers[H_Connection] = S_close
        /\ (wrote[c] # <<>> /\ exit[c] # "panic" /\ Len(resps[c]) > 0
                /\ Aligned(cli[c], Len(resps[c]))) =>
              WireHeaderValues(wrote[c], H_Connection) =
                 IF ClientAsksClose(cli[c].msgs[Len(resps[c])]) THEN {S_close} ELSE {}

\* the third request said "Connection: Close" and its response says close
C3_Witness ==
    \E c \in Conns :
        /\ Len(resps[c]) = 3
        /\ cli[c].msgs[3] = M_EchoClose
        /\ WireHeaderValues(wrote[c], H_Connection) = {S_close}

\* C4: requests without Connection: close are answered and the loop parses
\* on; the first request with Connection: close is answered and is the last:
\* the thread has left the loop and parses nothing more.
C4_KeepAliveUntilClose ==
    \A c \in Conns :
        \* a parsed request without a response is being served, or the write failed
        /\ Len(reqs[c]) # Len(resps[c]) =>
              /\ Len(reqs[c]) = Len(resps[c]) + 1
              /\ pc[c] \in {"fs_write", "send", "panicked"}
        /\ \A i \in 1..Len(reqs[c]) : Aligned(cli[c], i) =>
              \* no request was parsed after one that asked to close
              /\ i < Len(reqs[c]) => ~ClientAsksClose(cli[c].msgs[i])
              \* answered: the loop is left exactly when the request asked to close
              /\ (i = Len(reqs[c]) /\ i = Len(resps[c])) =>
                    IF ClientAsksClose(cli[c].msgs[i])
                    THEN pc[c] = "released" /\ exit[c] = "close"
                    ELSE exit[c] # "close" /\ (pc[c] # "released" => Parsing(c))

\* two requests answered on a kept connection, the third asked to close, was
\* answered and ended the loop with a fourth request still unread
C4_Witness ==
    \E c \in Conns :
        /\ Len(resps[c]) = 3
        /\ pc[c] = "released"
        /\ exit[c] = "close"
        /\ buf[c] \o rx[c] = Encode(M_Root)

\* C5: (the claim as stated) when the peer closes before the blank line, the
\* header phase ends: the read_line that returns nothing makes the parser
\* return None and the connection is released with no response.
C5_MidHeaderCloseReleases ==
    [][\A c \in Conns :
          (pc[c] = "hdrline" /\ line[c] = <<>> /\ pc'[c] # pc[c]) =>
             /\ pc'[c] = "released"
             /\ resps'[c] = resps[c]
             /\ wrote'[c] = wrote[c]]_vars

\* C6: a request line read as empty (the stream gave no byte) or with fewer
\* than two tokens makes the parser return None: nothing is written, the
\* responses already written stay, and the connection is released.
C6_BadRequestLineReleases ==
    [][\A c \in Conns :
          (pc[c] = "reqline" /\ TokenCount(line[c]) < 2 /\ pc'[c] # pc[c]) =>
             /\ pc'[c] = "released"
             /\ reqs'[c] = reqs[c]
             /\ resps'[c] = resps[c]
             /\ wrote'[c] = wrote[c]]_vars

\* a connection that was answered once was released on a one-token line
C6_Witness ==
    \E c \in Conns :
        /\ pc[c] = "released"
        /\ exit[c] = "bad_line"
        /\ Len(resps[c]) = 1
        /\ cli[c].msgs = <<M_Root, M_OneToken>>

\* C7: (the claim as stated) when the stream ends before content-length
\* body bytes were read, the request is still produced, with the bytes read
\* so far as its body.
C7_ShortBodyStillProduced ==
    [][\A c \in Conns :
          (/\ pc[c] = "body" /\ Len(req[c].body) < body_len(req[c].headers)
           /\ buf[c] = <<>> /\ AtEof(c) /\ pc'[c] # pc[c]) =>
             reqs'[c] = Append(reqs[c], req[c])]_vars

\* C7 (amended): when the stream ends before content-length body bytes were
\* read, the parser returns None: no request is produced, nothing is
\* written, and the connection is released.
C7_ShortBodyDropsRequest ==
    [][\A c \in Conns :
          (/\ pc[c] = "body" /\ Len(req[c].body) < body_len(req[c].headers)
           /\ buf[c] = <<>> /\ AtEof(c) /\ pc'[c] # pc[c]) =>
             /\ pc'[c] = "released"
             /\ reqs'[c] = reqs[c]
             /\ resps'[c] = resps[c]
             /\ wrote'[c] = wrote[c]]_vars

\* a POST whose 2-byte body the client cut short by one byte was dropped: the
\* connection holds only the earlier request and its response
C7_Witness ==
    \E c \in Conns :
        /\ exit[c] = "body_eof"
        /\ cli[c].msgs = <<M_GetA, M_PostA2>>
        /\ cli[c].cut = 1
        /\ Len(reqs[c]) = 1
        /\ Len(resps[c]) = 1

\* C8: one response per parsed request, in the order of the requests, and
\* the response to a request is on the wire in full before the next request
\* is parsed.
C8_StrictlySequential ==
    \A c \in Conns :
        /\ Len(resps[c]) <= Len(reqs[c])
        /\ Len(reqs[c]) <= Len(resps[c]) + 1
        /\ Parsing(c) => Len(resps[c]) = Len(reqs[c])
        /\ \A i \in 1..Len(resps[c]) : Aligned(cli[c], i) =>
              LET m == cli[c].msgs[i]
                  r == resps[c][i]
              IN  /\ starts_with(m.path, S_EchoPrefix) =>
                        r.status = S_200 /\ Payload(r) = Drop(m.path, 6)
                  /\ m.path = S_Root => r.status = S_200 /\ Payload(r) = <<>>
                  /\ m.path = S_UserAgentPath => r.status = S_200
                  /\ m.path = P_Nope => r.status = S_404
                  /\ starts_with(m.path, S_FilesPrefix) =>
                        r.status \in {S_200, S_201, S_404, S_500}
        /\ (Parsing(c) /\ Len(resps[c]) > 0) =>
              LET r == resps[c][Len(resps[c])]
              IN  /\ starts_with(wrote[c], S_HTTP11sp \o r.status \o S_CRLF)
                  /\ WireBody(wrote[c]) = r.body

\* the second response is on the wire in full while the bytes of the third
\* request wait in the reader's buffer
C8_Witness ==
    \E c \in Conns :
        /\ pc[c] = "line"
        /\ Len(resps[c]) = 2
        /\ buf[c] # <<>>
        /\ WireBody(wrote[c]) = resps[c][2].body
        /\ resps[c][2].body # <<>>

\* all that belongs to one connection and its thread
ConnState(c) ==
    <<pc[c], rx[c], buf[c], line[c], req[c], res[c], reqs[c], resps[c], wrote[c], exit[c]>>

\* a client that sends whole, framed requests and then closes its end
WellBehaved(k) ==
    /\ k.ending = "close"
    /\ k.cut = 0
    /\ \A i \in 1..Len(k.msgs) : Framed(k.msgs[i])

\* the number of requests of client k the server is to answer: all of them
\* up to the first that asks to close
ToAnswer(k) ==
    LET closing == {i \in 1..Len(k.msgs) : ClientAsksClose(k.msgs[i])}
    IN  IF closing = {} THEN Len(k.msgs) ELSE MinOf(closing)

\* the clients of the two-connection scenarios that are well-behaved, and
\* the number of answers each is to get
WellBehavedClients == {k \in Behaved \cup Others : WellBehaved(k)}
Answers == [k \in WellBehavedClients |-> ToAnswer(k)]

\* the thread of connection c waits in a read for bytes its own client has
\* not sent
Waiting(c) ==
    /\ \/ pc[c] \in {"line", "headers"}
       \/ pc[c] = "body" /\ Len(req[c].body) < body_len(req[c].headers)
    /\ buf[c] = <<>> /\ rx[c] = <<>>
    /\ cli[c].ending = "stall"

\* handle_connection has returned or unwound, or the connection never came
Ended(c) == pc[c] \in {"released", "panicked", "lost"}

\* C9: connections are isolated.  A step of one connection's thread (a
\* failed read or write, a panic, a release) changes nothing of another
\* connection; a connection offered can be accepted and a thread that does
\* not wait for its own client can step, whatever the other connection does
\* (fails, hangs, blocks); and a well-behaved client never loses its thread
\* and is released with all its requests answered.
C9_ConnectionsIsolated ==
    /\ [][\A c, d \in Conns :
             (c # d /\ ConnState(c)' # ConnState(c)) => ConnState(d)' = ConnState(d)]_vars
    /\ [](\A c \in Conns :
             /\ pc[c] = "pending" => ENABLED Accept(c)
             /\ (pc[c] # "pending" /\ ~Ended(c) /\ ~Waiting(c)) => ENABLED Thread(c)
             /\ cli[c] \in WellBehavedClients =>
                   /\ pc[c] # "panicked"
                   /\ pc[c] = "released" =>
                         /\ exit[c] \in {"eof", "close"}
                         /\ Len(resps[c]) = Answers[cli[c]])

\* a well-behaved client has all its answers while the thread of the other
\* connection has panicked on a failed write
C9_Witness ==
    \E c, d \in Conns :
        /\ c # d
        /\ exit[d] = "panic"
        /\ cli[c] \in WellBehavedClients
        /\ pc[c] = "released"
        /\ Len(resps[c]) = Answers[cli[c]]
        /\ Len(resps[c]) >= 2

\* C10: once a POST of /files/<name> with body B was answered 201 and the
\* file was not written since, the router answers a GET of /files/<name>,
\* on any connection, with 200 and B, and that is the response send writes.
C10_GetAfterAnsweredPost ==
    [][\A c \in Conns :
          /\ (/\ pc[c] = "body" /\ pc'[c] = "send"
              /\ req[c].method = "Get"
              /\ starts_with(req[c].path, S_FilesPrefix)
              /\ filename(req[c].path) \in DOMAIN quiet
              /\ quiet[filename(req[c].path)].st = "answered") =>
                 /\ res'[c].status = S_200
                 /\ res'[c].body = quiet[filename(req[c].path)].data
          /\ (pc[c] = "send" /\ Len(resps'[c]) = Len(resps[c]) + 1) =>
                 /\ resps'[c][Len(resps'[c])].status = res[c].status
                 /\ Payload(resps'[c][Len(resps'[c])]) = res[c].body]_vars

\* a GET is being answered 200 with the body another connection posted
C10_Witness ==
    \E c \in Conns :
        /\ pc[c] = "send"
        /\ res[c].status = S_200
        /\ res[c].body = B_xyz
        /\ N_a \in DOMAIN quiet
        /\ quiet[N_a].st = "answered"
        /\ quiet[N_a].by # c
        /\ quiet[N_a].data = B_xyz

\* the value has, between two commas or the ends, a piece that is "gzip"
\* once the whitespace around it is taken off
HasGzipToken(v) ==
    \E i, j \in 1..Len(v) :
        /\ i <= j
        /\ i = 1 \/ v[i - 1] = 44
        /\ j = Len(v) \/ v[j + 1] = 44
        /\ \A k \in i..j : v[k] # 44
        /\ trim(SubSeq(v, i, j)) = S_gzip

\* the response send has just written on connection c
Written(c) == resps'[c][Len(resps'[c])]

\* C11: send writes Content-Encoding: gzip and a gzip body that decompresses
\* to the payload exactly when the request's accept-encoding value has a
\* comma-separated token that, trimmed, is "gzip"; otherwise it writes no
\* Content-Encoding header and the payload as it is.
C11_GzipIffToken ==
    [][\A c \in Conns :
          (pc[c] = "send" /\ Len(resps'[c]) = Len(resps[c]) + 1) =>
             IF /\ K_accept_encoding \in DOMAIN req[c].headers
                /\ HasGzipToken(req[c].headers[K_accept_encoding])
             THEN /\ H_ContentEncoding \in DOMAIN Written(c).headers
                  /\ Written(c).headers[H_ContentEncoding] = S_gzip
                  /\ gunzip(Written(c).body) = [ok |-> TRUE, data |-> res[c].body]
                  /\ WireHeaderValues(wrote'[c], H_ContentEncoding) = {S_gzip}
                  /\ WireBody(wrote'[c]) = Written(c).body
             ELSE /\ H_ContentEncoding \notin DOMAIN Written(c).headers
                  /\ Written(c).body = res[c].body
                  /\ WireHeaderValues(wrote'[c], H_ContentEncoding) = {}
                  /\ WireBody(wrote'[c]) = res[c].body]_vars

\* a request whose accept-encoding value has gzip as its second token, with
\* spaces around it, was answered with a gzip body holding the payload
C11_Witness ==
    \E c \in Conns :
        /\ Len(resps[c]) = 1
        /\ K_accept_encoding \in DOMAIN reqs[c][1].headers
        /\ Len(reqs[c][1].headers[K_accept_encoding]) > Len(S_gzip) + 2
        /\ H_ContentEncoding \in DOMAIN resps[c][1].headers
        /\ gunzip(resps[c][1].body) = [ok |-> TRUE, data |-> B_old]

\* the header lines of a message as the client sends them, in order
HeaderLinesOf(m) ==
    m.hdrs \o (IF m.cl >= 0 THEN <<C_ContentLength \o to_string(m.cl)>> ELSE <<>>)

\* what is left and right of the first ": " of a line
LeftOf(l) == Take(l, Find(l, S_ColonSp) - 1)
RightOf(l) == Drop(l, Find(l, S_ColonSp) + 1)

\* the map the claim describes: of the lines with a ": ", each lowercased
\* key with the trimmed value of the last line that carries it
LastValues(lines) ==
    LET with == {i \in 1..Len(lines) : Find(lines[i], S_ColonSp) > 0}
        keys == {to_lowercase(LeftOf(lines[i])) : i \in with}
    IN  [k \in keys |->
            trim(RightOf(lines[MaxOf({i \in with : to_lowercase(LeftOf(lines[i])) = k})]))]

\* the message connection c is parsing, when the messages before it were
\* framed
Current(c) == cli[c].msgs[Len(reqs[c]) + 1]

\* C12: when parse_headers has met the blank line, the headers map holds,
\* for each header line with a ": ", the lowercased key with the trimmed
\* value of the last line carrying that key; lines without ": " add nothing.
C12_HeadersLastValueWins ==
    \A c \in Conns :
        (pc[c] = "body" /\ Aligned(cli[c], Len(reqs[c]) + 1)) =>
            req[c].headers = LastValues(HeaderLinesOf(Current(c)))

\* the headers of a request sent with User-Agent: t/1, User-Agent:bar,
\* user-agent:  u/2 and X-Key: one are complete
C12_Witness ==
    \E c \in Conns :
        /\ pc[c] = "body"
        /\ Aligned(cli[c], Len(reqs[c]) + 1)
        /\ Len(Current(c).hdrs) = 4
        /\ Cardinality(DOMAIN req[c].headers) = 2
        /\ req[c].headers[K_user_agent] = <<117, 47, 50>>

\* connection c takes the step from the parsed request to its response, or
\* to the write of the file
Routes(c) == pc[c] = "body" /\ pc'[c] \in {"send", "fs_write"}

\* C13: the router answers by the path alone, whatever the method: "/" with
\* 200 and no body, "/echo/<s>" with 200 and <s>, "/user-agent" with 200 and
\* the user-agent value or nothing, "/files/..." by the file handler (a GET
\* is answered 200 or 404, a POST goes to the write or is answered 500), and
\* any other path with 404 and no body.
C13_RouterTable ==
    [][\A c \in Conns :
          Routes(c) =>
             IF req[c].path = S_Root
             THEN pc'[c] = "send" /\ res'[c].status = S_200 /\ res'[c].body = <<>>
             ELSE IF starts_with(req[c].path, S_EchoPrefix)
             THEN /\ pc'[c] = "send" /\ res'[c].status = S_200
                  /\ res'[c].body = SubSeq(req[c].path, 7, Len(req[c].path))
             ELSE IF req[c].path = S_UserAgentPath
             THEN /\ pc'[c] = "send" /\ res'[c].status = S_200
                  /\ res'[c].body = (IF K_user_agent \in DOMAIN req[c].headers
                                     THEN req[c].headers[K_user_agent] ELSE <<>>)
             ELSE IF starts_with(req[c].path, S_FilesPrefix)
             THEN IF req[c].method = "Post"
                  THEN pc'[c] = "fs_write" \/ (pc'[c] = "send" /\ res'[c].status = S_500)
                  ELSE pc'[c] = "send" /\ res'[c].status \in {S_200, S_404}
             ELSE pc'[c] = "send" /\ res'[c].status = S_404 /\ res'[c].body = <<>>]_vars

\* a POST of /echo/ab is being answered 200 with the body "ab"
C13_Witness ==
    \E c \in Conns :
        /\ pc[c] = "send"
        /\ req[c].method = "Post"
        /\ req[c].path = P_EchoAb
        /\ res[c].status = S_200
        /\ res[c].body = <<97, 98>>

\* C14: of a request line "<M> <P> HTTP/1.1" the parser takes P as the path
\* and POST as the method exactly when M is "POST"; with any other M (GET,
\* PUT, post) the method is GET.
C14_RequestLineParsed ==
    [][\A c \in Conns :
          (/\ pc[c] = "reqline" /\ pc'[c] = "headers"
           /\ Aligned(cli[c], Len(reqs[c]) + 1)) =>
              /\ req'[c].path = Current(c).path
              /\ req'[c].method = (IF Current(c).method = S_POST THEN "Post" ELSE "Get")]_vars

\* the request line "post /files/a HTTP/1.1" was parsed as a GET of /files/a
C14_Witness ==
    \E c \in Conns :
        /\ pc[c] = "headers"
        /\ reqs[c] = <<>>
        /\ Current(c).method = S_post
        /\ req[c].method = "Get"
        /\ req[c].path = P_FilesA

\* connection c takes the step that answers a GET of a path under /files/
FileGet(c) ==
    /\ pc[c] = "body" /\ pc'[c] = "send"
    /\ req[c].method = "Get"
    /\ starts_with(req[c].path, S_FilesPrefix)

\* the Content-Type HttpResponse::new gave the response
ContentType(r) == r.headers[H_ContentType]

\* C15 as stated: a GET of /files/<name> is answered 200, octet-stream,
\* with the bytes stored at the path whenever the path exists, for every
\* name (a path that cannot be read as a file included), and 404 with no
\* body otherwise.
C15_GetReturnsStoredBytes ==
    [][\A c \in Conns :
          FileGet(c) =>
             IF filename(req[c].path) \in DOMAIN files
             THEN /\ res'[c].status = S_200
                  /\ ContentType(res'[c]) = S_octet
                  /\ res'[c].body = files[filename(req[c].path)].data
             ELSE res'[c].status = S_404 /\ res'[c].body = <<>>]_vars

\* C15, amended: when the path exists the answer is 200, octet-stream, with
\* the file's bytes if the read succeeds and with no body if it fails (a
\* directory, as for the empty name, or a file that may not be read); when
\* the path does not exist the answer is 404 with no body.
C15_GetReturnsBytesOrNothing ==
    [][\A c \in Conns :
          FileGet(c) =>
             IF filename(req[c].path) \in DOMAIN files
             THEN /\ res'[c].status = S_200
                  /\ ContentType(res'[c]) = S_octet
                  /\ res'[c].body =
                        (IF files[filename(req[c].path)].kind = "file"
                         THEN files[filename(req[c].path)].data ELSE <<>>)
             ELSE res'[c].status = S_404 /\ res'[c].body = <<>>]_vars

\* a GET of a file that holds bytes but may not be read is being answered
\* 200 with no body
C15_Witness ==
    \E c \in Conns :
        /\ pc[c] = "send"
        /\ req[c].method = "Get"
        /\ req[c].path = P_FilesK
        /\ files[N_k].data = B_key
        /\ res[c].status = S_200
        /\ ContentType(res[c]) = S_octet
        /\ res[c].body = <<>>

\* connection c takes the step that ends std::fs::write of a POST of a path
\* under /files/ and makes the response
FilePostAnswered(c) ==
    /\ pc[c] \in {"body", "fs_write"} /\ pc'[c] = "send"
    /\ is_file_post(req[c])

IsUnsignedDecimal(v) ==
    LET d == IF v # <<>> /\ v[1] = 43 THEN SubSeq(v, 2, Len(v)) ELSE v
    IN  d # <<>> /\ \A i \in 1..Len(d) : d[i] \in 48..57

\* the request being parsed has no content-length that is a number
NoLength(c) ==
    \/ K_content_length \notin DOMAIN req[c].headers
    \/ ~IsUnsignedDecimal(req[c].headers[K_content_length])

\* what client k has sent after the blank line of its message i
AfterBlankLine(k, i) ==
    LET headEnd == Len(Stream(SubSeq(k.msgs, 1, i - 1))) + Len(MsgHead(k.msgs[i]))
    IN  SubSeq(Sent(k), headEnd + 1, Len(Sent(k)))

\* C17: when the content-length header is absent or is not a number, the
\* body phase reads nothing: the request is produced with an empty body,
\* and every byte the client sent after the blank line is still to be read,
\* in the reader's buffer or in the stream, for the next parse cycle.
C17_NoLengthNoBody ==
    [][\A c \in Conns :
          (/\ pc[c] = "body" /\ NoLength(c)
           /\ ConnState(c)' # ConnState(c)) =>
              /\ pc'[c] \in {"send", "fs_write"}
              /\ Len(reqs'[c]) = Len(reqs[c]) + 1
              /\ reqs'[c][Len(reqs'[c])].body = <<>>
              /\ buf'[c] = buf[c] /\ rx'[c] = rx[c]
              /\ Aligned(cli[c], Len(reqs[c]) + 1) =>
                    buf[c] \o rx[c] = AfterBlankLine(cli[c], Len(reqs[c]) + 1)]_vars

\* a POST sent with Content-Length: -1 and the bytes "xyz" was produced
\* with an empty body, and "xyz" and the request after it are still to be
\* read
C17_Witness ==
    \E c \in Conns :
        /\ pc[c] = "fs_write"
        /\ Len(reqs[c]) = 1
        /\ reqs[c][1].headers = (K_content_length :> <<45, 49>>)
        /\ reqs[c][1].body = <<>>
        /\ buf[c] \o rx[c] = B_xyz \o Encode(M_Root)

\* the messages of connection c's client that have become requests
Served(c) == SubSeq(cli[c].msgs, 1, Len(reqs[c]))

\* every message that has become a request on connection c was framed, so
\* that request i is message i
InStep(c) ==
    /\ Len(reqs[c]) <= Len(cli[c].msgs)
    /\ \A j \in 1..Len(reqs[c]) : Framed(cli[c].msgs[j])

\* the request has the method, path and body of the message
ParsedAs(rq, m) ==
    /\ rq.method = (IF m.method = S_POST THEN "Post" ELSE "Get")
    /\ rq.path = m.path
    /\ rq.body = m.body

\* C18: request boundaries are byte-exact across the parse cycles of a
\* connection.  Between two requests, and after the request line, what was
\* parsed, the line in hand, the reader's buffer and the stream make up
\* what the client sent, so the bytes of the next request that came with
\* the end of the last are kept; request i is message i with its method,
\* path and body; and a client that sends complete requests and closes is
\* released with one response per request, up to one that asks to close.
C18_BoundariesByteExact ==
    \A c \in Conns :
        InStep(c) =>
            /\ pc[c] \in {"line", "reqline"} =>
                  Stream(Served(c)) \o line[c] \o buf[c] \o rx[c] = Sent(cli[c])
            /\ (pc[c] = "body" /\ Aligned(cli[c], Len(reqs[c]) + 1)) =>
                  Stream(Served(c)) \o MsgHead(Current(c)) \o req[c].body
                     \o buf[c] \o rx[c] = Sent(cli[c])
            /\ \A i \in 1..Len(reqs[c]) : ParsedAs(reqs[c][i], cli[c].msgs[i])
            /\ Len(resps[c]) <= Len(reqs[c])
            /\ (pc[c] = "released" /\ WellBehaved(cli[c])) =>
                  Len(resps[c]) = ToAnswer(cli[c])

\* both requests of a client whose bytes all came in one read were parsed
\* and answered: the POST of "xyz" with 201, the GET after it with "xyz"
C18_Witness ==
    \E c \in Conns :
        /\ cli[c].burst
        /\ cli[c].msgs = <<M_PostA, M_GetA>>
        /\ pc[c] = "line"
        /\ buf[c] = <<>> /\ rx[c] = <<>>
        /\ Len(resps[c]) = 2
        /\ resps[c][1].status = S_201
        /\ resps[c][2].status = S_200
        /\ resps[c][2].body = B_xyz

\* the bodies the clients post to /files/<name>
Posted(name) ==
    UNION { { cli[c].msgs[i].body :
                i \in { j \in 1..Len(cli[c].msgs) :
                          /\ cli[c].msgs[j].kind = "req"
                          /\ cli[c].msgs[j].method = S_POST
                          /\ cli[c].msgs[j].path = S_FilesPrefix \o name } } :
            c \in Conns }

\* what the file can hold while POSTs overlap: nothing, one body, or one
\* body over the start of another
Mixed(name) ==
    {<<>>} \cup Posted(name)
           \cup { b1 \o Drop(b2, Len(b1)) : b1 \in Posted(name), b2 \in Posted(name) }

\* connection c is about to answer a GET of /files/<name> with 200
FileGetOk(c) ==
    /\ pc[c] = "send"
    /\ req[c].method = "Get"
    /\ starts_with(req[c].path, S_FilesPrefix)
    /\ res[c].status = S_200

\* every connection is released and every POST of a file was answered 201
AllPostsAnswered ==
    /\ \A c \in Conns : pc[c] = "released"
    /\ \A c \in Conns : \A i \in 1..Len(reqs[c]) :
          is_file_post(reqs[c][i]) =>
              i <= Len(resps[c]) /\ resps[c][i].status = S_201

C19_MixedFinal ==
    /\ AllPostsAnswered
    /\ N_a \in DOMAIN files
    /\ files[N_a].data = B_pq \o <<122>>

\* the message of its client that connection c is handling
Handled(c) == IF pc[c] = "fs_write" THEN Len(reqs[c]) ELSE Len(reqs[c]) + 1

\* the message was sent with the verb POST, exactly, on a path that starts
\* with /files/
SentAsFilePost(m) ==
    m.kind = "req" /\ m.method = S_POST /\ starts_with(m.path, S_FilesPrefix)

\* the two stores differ at most in the file of that name
SameButFor(fs1, fs2, name) ==
    \A n \in (DOMAIN fs1 \cup DOMAIN fs2) \ {name} :
        n \in DOMAIN fs1 /\ n \in DOMAIN fs2 /\ fs1[n] = fs2[n]

\* C20: a step changes the file store only when a connection is handling a
\* request sent with the verb POST, exactly, on a path that starts with
\* /files/, and then only the file of that name changes; a connection that
\* dispatches any other request leaves the store as it is.
C20_OnlyFilePostWrites ==
    [][/\ files' # files =>
            \E c \in Conns :
                /\ pc[c] \in {"body", "fs_write"} /\ pc'[c] # pc[c]
                /\ req[c].method = "Post"
                /\ starts_with(req[c].path, S_FilesPrefix)
                /\ Aligned(cli[c], Handled(c)) =>
                      SentAsFilePost(cli[c].msgs[Handled(c)])
                /\ SameButFor(files, files', filename(req[c].path))
       /\ \A c \in Conns :
            (/\ pc[c] = "body" /\ pc'[c] # "body"
             /\ Aligned(cli[c], Handled(c))
             /\ ~SentAsFilePost(cli[c].msgs[Handled(c)])) =>
                /\ pc'[c] = "send"
                /\ files' = files]_vars

\* a POST of /files/b with body "pq" was answered 201 and the store differs
\* from the initial one in the file b alone
C20_Witness ==
    \E c \in Conns :
        /\ Len(resps[c]) >= 1
        /\ resps[c][1].status = S_201
        /\ reqs[c][1].path = P_FilesB
        /\ files = insert(Store3, N_b, RegularFile(B_pq))

\* a request sent as "post /files/a" was answered and the store is the
\* initial one
C20_LowercaseVerbWritesNothing ==
    \E c \in Conns :
        /\ Len(cli[c].msgs) = 1
        /\ cli[c].msgs[1].method = S_post
        /\ cli[c].msgs[1].path = P_FilesA
        /\ Len(resps[c]) = 1
        /\ files = Store3

=============================================================================
